---- MODULE Spec2Model ----
(***************************************************************************)
(* Model of scripts/validate-manifest-schema.py: the release-manifest      *)
(* validator.  One run loads a JSON schema and a YAML manifest, validates  *)
(* the manifest against the schema (jsonschema.validate), runs the         *)
(* supplemental checks (additional_validations), prints a report and exits.*)
(*                                                                         *)
(* Strings are sequences of one-character strings, so that the three       *)
(* regular expressions are computed character by character.                *)
(***************************************************************************)
EXTENDS Integers, Sequences, FiniteSets

(***************************************************************************)
(* Characters and the regular-expression primitives of Python's re module. *)
(***************************************************************************)

\* Length of the hexadecimal run required by r'^[a-f0-9]{40}$'.
ShaLen == 40

\* Length of the hexadecimal run required by r'^sha256:[a-f0-9]{64}$'.
DigestHexLen == 64

\* Inputs of the format predicates are generated with lengths within
\* LenSlack of the required length.
LenSlack == 1

\* Longest run of digits / tag characters in a generated version string.
MaxRun == 2

AsciiDigit == {"0", "1", "2", "3", "4", "5", "6", "7", "8", "9"}

\* The character class [a-f0-9].
HexLower == AsciiDigit \cup {"a", "b", "c", "d", "e", "f"}

\* The character class [a-z0-9].
TagChar == AsciiDigit \cup
  {"a", "b", "c", "d", "e", "f", "g", "h", "i", "j", "k", "l", "m",
   "n", "o", "p", "q", "r", "s", "t", "u", "v", "w", "x", "y", "z"}

\* ARABIC-INDIC DIGIT THREE, a decimal digit (category Nd) outside ASCII.
ArabicThree == "U+0663"

\* The class \d of a str pattern compiled without re.ASCII: every Unicode
\* decimal digit.
UnicodeDigit == AsciiDigit \cup {ArabicThree}

Rep(c, n) == [i \in 1..n |-> c]

\* The literal lit occurs in s at position i.
Literal(s, i, lit) ==
  /\ i + Len(lit) - 1 <= Len(s)
  /\ \A k \in 1..Len(lit) : s[i + k - 1] = lit[k]

\* Exactly n characters of class C occur in s from position i (C{n}).
Counted(s, i, C, n) ==
  /\ i + n - 1 <= Len(s)
  /\ \A k \in i..(i + n - 1) : s[k] \in C

\* Position after the longest run of characters of class C starting at i
\* (the greedy C+; none of the patterns can match after giving a character
\* of the run back, because what follows the run is never in C).
RECURSIVE RunEnd(_, _, _)
RunEnd(s, i, C) ==
  IF i <= Len(s) /\ s[i] \in C THEN RunEnd(s, i + 1, C) ELSE i

\* '$' without re.MULTILINE: at the end of the string, or just before a
\* newline that is the last character of the string.
DollarAt(s, i) ==
  \/ i = Len(s) + 1
  \/ i = Len(s) /\ s[i] = "\n"

(***************************************************************************)
(* The three format predicates.                                            *)
(***************************************************************************)

\* r'^v\d+\.\d+\.\d+(-[a-z0-9]+)?$'
validate_semantic_version(version) ==
  LET major == RunEnd(version, 2, UnicodeDigit)
      minor == RunEnd(version, major + 1, UnicodeDigit)
      patch == RunEnd(version, minor + 1, UnicodeDigit)
      tag   == RunEnd(version, patch + 1, TagChar)
  IN /\ Literal(version, 1, <<"v">>)
     /\ major > 2
     /\ Literal(version, major, <<".">>)
     /\ minor > major + 1
     /\ Literal(version, minor, <<".">>)
     /\ patch > minor + 1
     /\ \/ DollarAt(version, patch)
        \/ /\ Literal(version, patch, <<"-">>)
           /\ tag > patch + 1
           /\ DollarAt(version, tag)

\* r'^[a-f0-9]{40}$'
validate_commit_sha(sha) ==
  /\ Counted(sha, 1, HexLower, ShaLen)
  /\ DollarAt(sha, ShaLen + 1)

Sha256Prefix == <<"s", "h", "a", "2", "5", "6", ":">>

\* r'^sha256:[a-f0-9]{64}$'
validate_image_digest(digest) ==
  /\ Literal(digest, 1, Sha256Prefix)
  /\ Counted(digest, Len(Sha256Prefix) + 1, HexLower, DigestHexLen)
  /\ DollarAt(digest, Len(Sha256Prefix) + DigestHexLen + 1)

(***************************************************************************)
(* The patterns as documented: the sets of strings the predicates are      *)
(* meant to accept.                                                        *)
(***************************************************************************)

IsCommitSha(s) ==
  /\ Len(s) = ShaLen
  /\ \A i \in 1..Len(s) : s[i] \in HexLower

IsImageDigest(s) ==
  /\ Len(s) = Len(Sha256Prefix) + DigestHexLen
  /\ \A i \in 1..Len(Sha256Prefix) : s[i] = Sha256Prefix[i]
  /\ \A i \in (Len(Sha256Prefix) + 1)..Len(s) : s[i] \in HexLower

\* s[from..to] is a non-empty run of characters of class C.
IsRun(s, from, to, C) ==
  /\ from <= to
  /\ \A i \in from..to : s[i] \in C

IsSemanticVersion(s) ==
  /\ Len(s) >= 6
  /\ s[1] = "v"
  /\ \E a, b, c \in 2..Len(s) :
       /\ a < b /\ b <= c
       /\ IsRun(s, 2, a - 1, AsciiDigit)
       /\ s[a] = "."
       /\ IsRun(s, a + 1, b - 1, AsciiDigit)
       /\ s[b] = "."
       /\ IsRun(s, b + 1, c, AsciiDigit)
       /\ \/ c = Len(s)
          \/ /\ c + 2 <= Len(s)
             /\ s[c + 1] = "-"
             /\ IsRun(s, c + 2, Len(s), TagChar)

(***************************************************************************)
(* Parsed documents.  A YAML value is a record tagged with its kind; only  *)
(* what the program looks at is kept.                                      *)
(*   absent : the key is not in the enclosing mapping                      *)
(*   null   : None (no .get, no len(), not iterable, falsy, not a string)  *)
(*   int    : a non-zero number (no .get, no len(), truthy, not a string)  *)
(*   bool   : True / False                                                 *)
(*   str    : a string, as its characters                                  *)
(*   list   : a list (approvals: only its length is looked at)             *)
(*   map    : a mapping, with the keys the program reads                   *)
(***************************************************************************)

\* Largest number of entries of spec.components in a generated manifest.
MaxComponents == 2

\* Largest number of entries of spec.approvals in a generated manifest.
MaxApprovals == 1

Absent == [kind |-> "absent"]
Null   == [kind |-> "null"]
PyInt  == [kind |-> "int"]
Bool(b) == [kind |-> "bool", b |-> b]
Str(chars) == [kind |-> "str", chars |-> chars]

IsMap(v) == v.kind = "map"

\* Python truth value of a YAML value.
Truthy(v) ==
  CASE v.kind = "absent" -> FALSE
    [] v.kind = "null"   -> FALSE
    [] v.kind = "int"    -> TRUE
    [] v.kind = "bool"   -> v.b
    [] v.kind = "str"    -> v.chars # <<>>
    [] v.kind = "list"   -> v.len > 0
    [] v.kind = "map"    -> TRUE

Prod == Str(<<"p", "r", "o", "d">>)
Dev  == Str(<<"d", "e", "v">>)

GoodVersion == <<"v", "1", ".", "0", ".", "0">>
BadVersion  == <<"1", ".", "0", ".", "0">>
GoodSha     == Rep("a", ShaLen)
ShortSha    == Rep("a", ShaLen - 1)
GoodDigest  == Sha256Prefix \o Rep("0", DigestHexLen)
BadDigest   == <<"m", "d", "5", ":">> \o Rep("0", DigestHexLen)

MetadataValues ==
  {[kind |-> "map", environment |-> e, version |-> Str(GoodVersion)] :
     e \in {Absent, Prod, Dev}}
  \cup {Absent, Null}

GateValues ==
  {Absent, Null} \cup
  {[kind |-> "map", passed |-> p] : p \in {Absent, Bool(TRUE), Bool(FALSE)}}

ApprovalsValues ==
  {Absent, Null} \cup {[kind |-> "list", len |-> n] : n \in 0..MaxApprovals}

RollbackValues == {Absent, Str(GoodVersion)}

\* A component as the documented shape allows it: version is either well
\* formed or lacks the leading v, commitSha is absent or one character
\* short, imageDigest is absent or has the wrong prefix.
Component(version, commitSha, imageDigest) ==
  [kind |-> "map", name |-> Str(<<"e", "e">>), version |-> version,
   commitSha |-> commitSha, imageDigest |-> imageDigest]

GoodComponent == Component(Str(GoodVersion), Str(GoodSha), Str(GoodDigest))

ComponentValues ==
  {Component(v, c, d) : v \in {Str(GoodVersion), Str(BadVersion)},
                        c \in {Absent, Str(ShortSha)},
                        d \in {Absent, Str(BadDigest)}}
  \cup {GoodComponent,
        Null,                                            \* "- " (empty item)
        Component(Str(<<>>), Absent, Absent),            \* version: ""
        Component(PyInt, Absent, Absent),                \* version: 1
        Component(Absent, Str(GoodSha \o <<"\n">>), Absent)}

RECURSIVE SeqsUpTo(_, _)
SeqsUpTo(S, n) ==
  IF n = 0 THEN {<<>>}
  ELSE LET shorter == SeqsUpTo(S, n - 1)
       IN shorter \cup {Append(q, x) : q \in {r \in shorter : Len(r) = n - 1}, x \in S}

List(items) == [kind |-> "list", items |-> items]

ComponentsValues ==
  {List(q) : q \in SeqsUpTo(ComponentValues, MaxComponents)} \cup {Absent, Null}

Passed == [kind |-> "map", passed |-> Bool(TRUE)]

\* Every combination of the production evidence, around one good component.
GateSpecs ==
  [kind : {"map"}, securityScan : GateValues, approvals : ApprovalsValues,
   tests : GateValues, rollbackTarget : RollbackValues,
   components : {List(<<GoodComponent>>)}]

\* Every components value, with all of the production evidence or none.
ComponentSpecs ==
  [kind : {"map"}, securityScan : {Passed}, approvals : {[kind |-> "list", len |-> 1]},
   tests : {Passed}, rollbackTarget : {Str(GoodVersion)},
   components : ComponentsValues]
  \cup
  [kind : {"map"}, securityScan : {Absent}, approvals : {Absent},
   tests : {Absent}, rollbackTarget : {Absent}, components : ComponentsValues]

SpecValues == ComponentSpecs \cup GateSpecs \cup {Absent, Null}

\* What yaml.safe_load can return for a well-formed file.
Manifests ==
  [kind : {"map"}, metadata : MetadataValues, spec : SpecValues] \cup {Null}

(***************************************************************************)
(* The supplemental checks.  A call either returns its list of warnings or *)
(* raises (AttributeError from .get on a non-mapping, TypeError from len() *)
(* or iteration of None, or from re.match on a non-string).                *)
(***************************************************************************)

Returned(ws) == [raised |-> FALSE, warnings |-> ws]
Raised == [raised |-> TRUE, warnings |-> <<>>]

\* Run stage after acc: an exception in either abandons the list.
Then(acc, stage) ==
  IF acc.raised THEN Raised
  ELSE IF stage.raised THEN Raised
  ELSE Returned(acc.warnings \o stage.warnings)

\* A warning string: its fixed text, and for a component warning the
\* component's name and the offending value that are formatted into it.
\* comp is the position of that component in spec.components (0: none).
Warning(text) == [text |-> text, comp |-> 0, name |-> Absent, value |-> Absent]

ComponentWarning(text, i, component, value) ==
  [text |-> text, comp |-> i, name |-> component.name, value |-> value]

\* d.get(key, {}) on a mapping record: a missing key yields the empty dict.
\* manifest.get('metadata', {}).get('environment', '')   (line 109)
environment_of(manifest) ==
  IF manifest.metadata = Absent THEN Str(<<>>)
  ELSE IF manifest.metadata.environment = Absent THEN Str(<<>>)
  ELSE manifest.metadata.environment

\* Lines 116-119 and 126-129: one of the two scan-like gates.
gate_check(spec, key, missing, failing) ==
  IF spec = Absent \/ spec[key] = Absent THEN Returned(<<Warning(missing)>>)
  ELSE IF ~IsMap(spec[key]) THEN Raised
  ELSE IF ~Truthy(spec[key].passed) THEN Returned(<<Warning(failing)>>)
  ELSE Returned(<<>>)

\* approvals_check requiring two approvals: len(...) <= 1 for len(...) == 0.
approvals_check_two(spec) ==
  IF spec = Absent \/ spec.approvals = Absent
    THEN Returned(<<Warning("Production release missing approvals")>>)
  ELSE IF spec.approvals.kind # "list" THEN Raised
  ELSE IF spec.approvals.len <= 1
    THEN Returned(<<Warning("Production release missing approvals")>>)
  ELSE Returned(<<>>)

\* Lines 122-123.
approvals_check(spec) ==
  IF spec = Absent \/ spec.approvals = Absent
    THEN Returned(<<Warning("Production release missing approvals")>>)
  ELSE IF spec.approvals.kind # "list" THEN Raised
  ELSE IF spec.approvals.len = 0
    THEN Returned(<<Warning("Production release missing approvals")>>)
  ELSE Returned(<<>>)

\* Lines 112-129.  'securityScan' not in None raises TypeError.
production_gates(manifest) ==
  IF manifest.spec = Null THEN Raised
  ELSE Then(Then(gate_check(manifest.spec, "securityScan",
                            "Production release missing security scan results",
                            "Production release has failing security scan"),
                 approvals_check(manifest.spec)),
            gate_check(manifest.spec, "tests",
                       "Production release missing test results",
                       "Production release has failing tests"))

\* The predicate applied to each field (lines 134, 142, 150).
field_valid(key, chars) ==
  CASE key = "version" -> validate_semantic_version(chars)
    [] key = "commitSha" -> validate_commit_sha(chars)
    [] key = "imageDigest" -> validate_image_digest(chars)

\* Lines 133-138, 141-146, 149-154: one field of one component.
field_check(component, i, key, text) ==
  LET value == component[key]
  IN IF ~Truthy(value) THEN Returned(<<>>)
     ELSE IF value.kind # "str" THEN Raised
     ELSE IF ~field_valid(key, value.chars)
       THEN Returned(<<ComponentWarning(text, i, component, value)>>)
     ELSE Returned(<<>>)

\* The body of the loop of line 132 for the component at position i.
component_check(component, i) ==
  IF ~IsMap(component) THEN Raised
  ELSE Then(Then(field_check(component, i, "version",
                             "has invalid semantic version"),
                 field_check(component, i, "commitSha",
                             "has invalid commit SHA")),
            field_check(component, i, "imageDigest",
                        "has invalid image digest"))

RECURSIVE components_from(_, _)
components_from(items, i) ==
  IF i > Len(items) THEN Returned(<<>>)
  ELSE Then(component_check(items[i], i), components_from(items, i + 1))

\* Lines 132-154.
component_checks(manifest) ==
  IF manifest.spec = Absent THEN Returned(<<>>)
  ELSE IF ~IsMap(manifest.spec) THEN Raised
  ELSE IF manifest.spec.components = Absent THEN Returned(<<>>)
  ELSE IF manifest.spec.components.kind # "list" THEN Raised
  ELSE components_from(manifest.spec.components.items, 1)

\* Lines 157-161.
rollback_check(manifest) ==
  IF manifest.spec = Absent \/ manifest.spec.rollbackTarget = Absent
    THEN Returned(<<Warning("Production release should specify rollbackTarget")>>)
  ELSE Returned(<<>>)

\* additional_validations with the rollbackTarget check moved into the
\* first production block, before the loop over the components.
additional_validations_rollback_first(manifest) ==
  IF ~IsMap(manifest) THEN Raised
  ELSE IF manifest.metadata # Absent /\ ~IsMap(manifest.metadata) THEN Raised
  ELSE LET prod == environment_of(manifest) = Prod
       IN Then(IF prod THEN Then(production_gates(manifest), rollback_check(manifest))
               ELSE Returned(<<>>),
               component_checks(manifest))

additional_validations(manifest) ==
  IF ~IsMap(manifest) THEN Raised
  ELSE IF manifest.metadata # Absent /\ ~IsMap(manifest.metadata) THEN Raised
  ELSE LET prod == environment_of(manifest) = Prod
       IN Then(Then(IF prod THEN production_gates(manifest) ELSE Returned(<<>>),
                    component_checks(manifest)),
               IF prod THEN rollback_check(manifest) ELSE Returned(<<>>))

(***************************************************************************)
(* Structural validation.  jsonschema.validate is library code; the schema *)
(* file is an input, drawn from five small schemas whose meaning under     *)
(* JSON Schema is computed here.                                           *)
(***************************************************************************)

SchemaAny      == "{}"
SchemaObject   == "{\"type\": \"object\"}"
SchemaMetadata == "{\"properties\": {\"metadata\": {\"type\": \"object\"}}}"
SchemaNothing  == "{\"not\": {}}"
SchemaBadType  == "{\"type\": 12}"

SchemaDocs ==
  {SchemaAny, SchemaObject, SchemaMetadata, SchemaNothing, SchemaBadType}

Verdict(outcome, path) == [outcome |-> outcome, path |-> path]

\* validate(instance=manifest, schema=schema)   (line 189)
jsonschema_validate(instance, sch) ==
  CASE sch = SchemaBadType -> Verdict("SchemaError", <<>>)
    [] sch = SchemaAny -> Verdict("passed", <<>>)
    [] sch = SchemaObject ->
         IF IsMap(instance) THEN Verdict("passed", <<>>)
         ELSE Verdict("ValidationError", <<>>)
    [] sch = SchemaMetadata ->
         IF IsMap(instance) /\ instance.metadata # Absent
            /\ ~IsMap(instance.metadata)
           THEN Verdict("ValidationError", <<"metadata">>)
         ELSE Verdict("passed", <<>>)
    [] sch = SchemaNothing -> Verdict("ValidationError", <<>>)

(***************************************************************************)
(* The run.                                                                *)
(***************************************************************************)

VARIABLES
  schemaFile,    \* the file at args.schema: a failure to read it, or its document
  manifestFile,  \* the file at args.manifest: likewise
  verbose,       \* args.verbose
  pc,            \* where the run is
  schema,        \* local schema of validate_manifest_file
  manifest,      \* local manifest of validate_manifest_file
  warnings,      \* local warnings of validate_manifest_file
  success,       \* what validate_manifest_file returned to main
  output,        \* the lines printed so far
  exitCode,      \* the exit status of the process
  calls,         \* the stages entered so far, in order
  run,           \* 1 for the first run on these inputs, 2 for the second
  first,         \* what the first run produced
  fmtInput,      \* the string given to the format predicates
  fmtResult      \* what each format predicate answered for fmtInput

vars == <<schemaFile, manifestFile, verbose, pc, schema, manifest, warnings,
          success, output, exitCode, calls, run, first, fmtInput, fmtResult>>

inputs == <<schemaFile, manifestFile, verbose>>
fmtVars == <<fmtInput, fmtResult>>

Missing    == [kind |-> "missing"]      \* open() raises FileNotFoundError
Malformed  == [kind |-> "malformed"]    \* the parser raises its syntax error
Unreadable == [kind |-> "unreadable"]   \* open() or read() raises anything else

NotLoaded == [kind |-> "unset"]
NoExit == -1
NoFirst == [output |-> <<>>, warnings |-> <<>>, exitCode |-> NoExit]
NoFormat == [semver |-> "unset", sha |-> "unset", digest |-> "unset"]

SchemaFiles == {Missing, Malformed, Unreadable} \cup {Str(d) : d \in SchemaDocs}
ManifestFiles == {Missing, Malformed, Unreadable} \cup Manifests

Line(tag) == [tag |-> tag, arg |-> Absent]
LineOf(tag, arg) == [tag |-> tag, arg |-> arg]
Num(n) == [kind |-> "num", n |-> n]

Emit(lines) == output' = output \o lines
Enter(stage) == calls' = Append(calls, stage)

\* Lines 173-176.
Banner == <<Line("Validating Release Manifest"), Line("Manifest:"),
            Line("Schema:"), Line("")>>

Init ==
  /\ schemaFile \in SchemaFiles
  /\ manifestFile \in ManifestFiles
  /\ verbose \in BOOLEAN
  /\ pc = "start"
  /\ schema = NotLoaded
  /\ manifest = NotLoaded
  /\ warnings = <<>>
  /\ success = "unset"
  /\ output = <<>>
  /\ exitCode = NoExit
  /\ calls = <<>>
  /\ run = 1
  /\ first = NoFirst
  /\ fmtInput = <<>>
  /\ fmtResult = NoFormat

\* sys.exit(1) inside a loader, or an exception nobody catches: the
\* interpreter prints what it has to and the process ends with status 1.
Die(lines) ==
  /\ Emit(lines)
  /\ exitCode' = 1
  /\ pc' = "exit"

\* main calls validate_manifest_file, which prints the banner and calls
\* load_schema (lines 50-60, 173-179).
LoadSchema ==
  /\ pc = "start"
  /\ Enter("load_schema")
  /\ CASE schemaFile = Missing ->
            /\ Die(Banner \o <<Line("Schema file not found")>>)
            /\ schema' = schema
       [] schemaFile = Malformed ->
            /\ Die(Banner \o <<Line("Invalid JSON schema")>>)
            /\ schema' = schema
       [] schemaFile = Unreadable ->
            /\ Die(Banner \o <<Line("Traceback")>>)
            /\ schema' = schema
       [] OTHER ->
            /\ Emit(Banner)
            /\ schema' = schemaFile
            /\ pc' = "schema_loaded"
            /\ exitCode' = exitCode
  /\ UNCHANGED <<inputs, manifest, warnings, success, run, first, fmtVars>>

\* load_manifest that returns None for a file that is not there instead of
\* ending the run.
LoadManifestNoneWhenMissing ==
  /\ pc = "schema_loaded"
  /\ Enter("load_manifest")
  /\ CASE manifestFile = Missing ->
            /\ Emit(<<Line("Manifest file not found")>>)
            /\ manifest' = Null
            /\ pc' = "manifest_loaded"
            /\ exitCode' = exitCode
       [] manifestFile = Malformed ->
            /\ Die(<<Line("Invalid YAML manifest")>>)
            /\ manifest' = manifest
       [] manifestFile = Unreadable ->
            /\ Die(<<Line("Traceback")>>)
            /\ manifest' = manifest
       [] OTHER ->
            /\ manifest' = manifestFile
            /\ pc' = "manifest_loaded"
            /\ UNCHANGED <<output, exitCode>>
  /\ UNCHANGED <<inputs, schema, warnings, success, run, first, fmtVars>>

\* load_manifest (lines 63-73, 180).
LoadManifest ==
  /\ pc = "schema_loaded"
  /\ Enter("load_manifest")
  /\ CASE manifestFile = Missing ->
            /\ Die(<<Line("Manifest file not found")>>)
            /\ manifest' = manifest
       [] manifestFile = Malformed ->
            /\ Die(<<Line("Invalid YAML manifest")>>)
            /\ manifest' = manifest
       [] manifestFile = Unreadable ->
            /\ Die(<<Line("Traceback")>>)
            /\ manifest' = manifest
       [] OTHER ->
            /\ manifest' = manifestFile
            /\ pc' = "manifest_loaded"
            /\ UNCHANGED <<output, exitCode>>
  /\ UNCHANGED <<inputs, schema, warnings, success, run, first, fmtVars>>

\* Lines 182-185.
Dump == IF verbose THEN <<Line("Manifest content:"),
                          LineOf("yaml.dump", manifest), Line("")>>
        ELSE <<>>

\* Lines 191-199.
ManifestInvalid(path) ==
  <<Line("Schema validation failed:"), Line("e.message")>>
  \o (IF path # <<>> THEN <<LineOf("Path:", Str(path))>> ELSE <<>>)
  \o (IF verbose THEN <<Line("Full error:"), Line("e")>> ELSE <<>>)

\* Lines 200-203.
SchemaInvalid == <<Line("Schema itself is invalid:"), Line("e.message")>>

\* Lines 182-203: the verbose dump and the structural validation.
Validate ==
  /\ pc = "manifest_loaded"
  /\ Enter("validate")
  /\ LET verdict == jsonschema_validate(manifest, schema.chars)
     IN CASE verdict.outcome = "passed" ->
               /\ Emit(Dump \o <<Line("Schema validation passed")>>)
               /\ pc' = "validated"
               /\ success' = success
          [] verdict.outcome = "ValidationError" ->
               /\ Emit(Dump \o ManifestInvalid(verdict.path))
               /\ pc' = "returned"
               /\ success' = "False"
          [] verdict.outcome = "SchemaError" ->
               /\ Emit(Dump \o SchemaInvalid)
               /\ pc' = "returned"
               /\ success' = "False"
  /\ UNCHANGED <<inputs, schema, manifest, warnings, exitCode, run, first, fmtVars>>

\* The step of line 206 with manifest.setdefault('metadata', {}) for
\* manifest.get('metadata', {}): a manifest without metadata gains an empty one.
AdditionalValidationsSetDefault ==
  /\ pc = "validated"
  /\ Enter("additional_validations")
  /\ LET result == additional_validations(manifest)
     IN IF result.raised
          THEN /\ Die(<<Line("Traceback")>>)
               /\ warnings' = warnings
               /\ manifest' = manifest
          ELSE /\ warnings' = result.warnings
               /\ pc' = "checked"
               /\ manifest' =
                    IF manifest.metadata = Absent
                      THEN [manifest EXCEPT !.metadata =
                              [kind |-> "map", environment |-> Absent,
                               version |-> Absent]]
                    ELSE manifest
               /\ UNCHANGED <<output, exitCode>>
  /\ UNCHANGED <<inputs, schema, success, run, first, fmtVars>>

\* Line 206.  An exception raised by additional_validations is caught
\* nowhere: traceback, exit status 1.
AdditionalValidations ==
  /\ pc = "validated"
  /\ Enter("additional_validations")
  /\ LET result == additional_validations(manifest)
     IN IF result.raised
          THEN /\ Die(<<Line("Traceback")>>)
               /\ warnings' = warnings
          ELSE /\ warnings' = result.warnings
               /\ pc' = "checked"
               /\ UNCHANGED <<output, exitCode>>
  /\ UNCHANGED <<inputs, schema, manifest, success, run, first, fmtVars>>

\* Lines 207-210.
WarningLines ==
  IF warnings # <<>>
    THEN <<Line("Additional warnings:")>>
         \o [i \in 1..Len(warnings) |-> LineOf("warning", warnings[i])]
  ELSE <<>>

\* .get(key, 'unknown') of the metadata mapping (lines 214-215).
metadata_field(key) ==
  IF manifest.metadata = Absent \/ manifest.metadata[key] = Absent
    THEN Str(<<"u", "n", "k", "n", "o", "w", "n">>)
  ELSE manifest.metadata[key]

\* len(manifest.get('spec', {}).get('components', []))   (line 216)
component_count ==
  IF manifest.spec = Absent \/ manifest.spec.components = Absent THEN 0
  ELSE Len(manifest.spec.components.items)

\* Lines 213-219.
Summary ==
  <<Line("Validation complete!"),
    LineOf("Environment:", metadata_field("environment")),
    LineOf("Version:", metadata_field("version")),
    LineOf("Components:", Num(component_count))>>
  \o (IF warnings # <<>> THEN <<Line("Note: Warnings do not fail validation")>>
      ELSE <<>>)

\* Lines 207-221.
Report ==
  /\ pc = "checked"
  /\ Enter("report")
  /\ Emit(WarningLines \o Summary)
  /\ success' = "True"
  /\ pc' = "returned"
  /\ UNCHANGED <<inputs, schema, manifest, warnings, exitCode, run, first, fmtVars>>

\* sys.exit(0 if success else 1)   (line 258)
Exit ==
  /\ pc = "returned"
  /\ exitCode' = IF success = "True" THEN 0 ELSE 1
  /\ pc' = "exit"
  /\ UNCHANGED <<inputs, schema, manifest, warnings, success, output, calls,
                 run, first, fmtVars>>

Next ==
  \/ LoadSchema
  \/ LoadManifest
  \/ Validate
  \/ AdditionalValidations
  \/ Report
  \/ Exit

Spec == Init /\ [][Next]_vars

(***************************************************************************)
(* Two runs on the same files: after the first run has ended the tool is   *)
(* started again with the same arguments.  Nothing of the first process    *)
(* survives except the record of what it produced.                         *)
(***************************************************************************)

Rerun ==
  /\ pc = "exit"
  /\ run = 1
  /\ run' = 2
  /\ first' = [output |-> output, warnings |-> warnings, exitCode |-> exitCode]
  /\ pc' = "start"
  /\ schema' = NotLoaded
  /\ manifest' = NotLoaded
  /\ warnings' = <<>>
  /\ success' = "unset"
  /\ output' = <<>>
  /\ exitCode' = NoExit
  /\ calls' = <<>>
  /\ UNCHANGED <<inputs, fmtVars>>

NextRerun ==
  \/ LoadSchema
  \/ LoadManifest
  \/ Validate
  \/ AdditionalValidations
  \/ Report
  \/ Exit
  \/ Rerun

SpecRerun == Init /\ [][NextRerun]_vars

(***************************************************************************)
(* The format predicates on their own: a string is drawn and each          *)
(* predicate is applied to it.                                             *)
(***************************************************************************)

Subst(s, p, c) == [s EXCEPT ![p] = c]

\* Bodies of n characters around the required length: uniform, or with one
\* character outside the class at either end.
HexBodies(required) ==
  UNION {
    LET body == Rep(fill, n)
    IN {body} \cup {Subst(body, p, c) : p \in {1, n}, c \in {"g", "A", "\n"}}
    : n \in (required - LenSlack)..(required + LenSlack), fill \in {"a", "9"}}

Tails == {<<>>, <<"\n">>, <<"\n", "\n">>, <<" ">>}

ShaInputs == {b \o t : b \in HexBodies(ShaLen), t \in Tails}

DigestInputs ==
  {pre \o b \o t :
     pre \in {Sha256Prefix, <<>>, <<"S", "H", "A", "2", "5", "6", ":">>,
              <<"s", "h", "a", "2", "5", "6">>},
     b \in HexBodies(DigestHexLen), t \in Tails}

Runs(chars) == {Rep(c, n) : c \in chars, n \in 0..MaxRun}

VersionInputs ==
  {lead \o major \o <<".">> \o minor \o sep \o patch \o tag \o tail :
     lead \in {<<"v">>, <<>>, <<"V">>},
     major \in Runs({"1", ArabicThree}),
     minor \in Runs({"0"}),
     sep \in {<<".">>, <<"-">>},
     patch \in Runs({"1", ArabicThree}),
     tag \in {<<>>} \cup {<<"-">> \o r : r \in Runs({"a", "Z"})},
     tail \in {<<>>, <<"\n">>, <<"x">>}}

FormatInputs == ShaInputs \cup DigestInputs \cup VersionInputs

PyBool(b) == IF b THEN "True" ELSE "False"

InitFormat ==
  /\ fmtInput \in FormatInputs
  /\ fmtResult = NoFormat
  /\ schemaFile = Missing
  /\ manifestFile = Missing
  /\ verbose = FALSE
  /\ pc = "format"
  /\ schema = NotLoaded
  /\ manifest = NotLoaded
  /\ warnings = <<>>
  /\ success = "unset"
  /\ output = <<>>
  /\ exitCode = NoExit
  /\ calls = <<>>
  /\ run = 1
  /\ first = NoFirst

runVars == <<schemaFile, manifestFile, verbose, pc, schema, manifest, warnings,
             success, output, exitCode, calls, run, first>>

CallSemanticVersion ==
  /\ pc = "format"
  /\ fmtResult.semver = "unset"
  /\ fmtResult' = [fmtResult EXCEPT
                     !.semver = PyBool(validate_semantic_version(fmtInput))]
  /\ UNCHANGED <<fmtInput, runVars>>

CallCommitSha ==
  /\ pc = "format"
  /\ fmtResult.sha = "unset"
  /\ fmtResult' = [fmtResult EXCEPT
                     !.sha = PyBool(validate_commit_sha(fmtInput))]
  /\ UNCHANGED <<fmtInput, runVars>>

CallImageDigest ==
  /\ pc = "format"
  /\ fmtResult.digest = "unset"
  /\ fmtResult' = [fmtResult EXCEPT
                     !.digest = PyBool(validate_image_digest(fmtInput))]
  /\ UNCHANGED <<fmtInput, runVars>>

NextFormat ==
  \/ CallSemanticVersion
  \/ CallCommitSha
  \/ CallImageDigest

SpecFormat == InitFormat /\ [][NextFormat]_vars

(***************************************************************************)
(* Vocabulary of the properties.                                           *)
(***************************************************************************)

Range(q) == {q[i] : i \in 1..Len(q)}
Last(q) == q[Len(q)]
IsPrefix(a, b) == Len(a) <= Len(b) /\ \A i \in 1..Len(a) : a[i] = b[i]

Done == pc = "exit"
HasLine(tag) == \E i \in 1..Len(output) : output[i].tag = tag
Entered(stage) == stage \in Range(calls)

Loadable(file) == file \notin {Missing, Malformed, Unreadable}

\* The outcome of structural validation for the files of this run.
StructuralOutcome ==
  IF Loadable(schemaFile) /\ Loadable(manifestFile)
    THEN jsonschema_validate(manifestFile, schemaFile.chars).outcome
  ELSE "not reached"

StructurallyValid == StructuralOutcome = "passed"

SecurityScanTexts == {"Production release missing security scan results",
                      "Production release has failing security scan"}
ApprovalsTexts == {"Production release missing approvals"}
TestsTexts == {"Production release missing test results",
               "Production release has failing tests"}
RollbackTexts == {"Production release should specify rollbackTarget"}
GateTexts == SecurityScanTexts \cup ApprovalsTexts \cup TestsTexts \cup RollbackTexts

VersionText == "has invalid semantic version"
ShaText == "has invalid commit SHA"
DigestText == "has invalid image digest"

Count(texts) == Cardinality({j \in 1..Len(warnings) : warnings[j].text \in texts})

IsWarningLine(line) == line.tag = "warning"

\* The warnings as printed, in the order of printing.
PrintedWarnings ==
  LET printed == SelectSeq(output, IsWarningLine)
  IN [i \in 1..Len(printed) |-> printed[i].arg]

SummaryTags == {"Validation complete!", "Environment:", "Version:", "Components:"}

\* What the manifest says, read without the program.
EnvIsProd(m) == IsMap(m) /\ IsMap(m.metadata) /\ m.metadata.environment = Prod
GatePassed(m, key) ==
  IsMap(m.spec) /\ IsMap(m.spec[key]) /\ m.spec[key].passed = Bool(TRUE)
ApprovalsGiven(m) ==
  IsMap(m.spec) /\ m.spec.approvals.kind = "list" /\ m.spec.approvals.len > 0
RollbackGiven(m) == IsMap(m.spec) /\ m.spec.rollbackTarget # Absent

NoProductionGap(m) ==
  \/ ~EnvIsProd(m)
  \/ /\ GatePassed(m, "securityScan")
     /\ ApprovalsGiven(m)
     /\ GatePassed(m, "tests")
     /\ RollbackGiven(m)

ComponentsOf(m) ==
  IF IsMap(m) /\ IsMap(m.spec) /\ m.spec.components.kind = "list"
    THEN m.spec.components.items
  ELSE <<>>

(***************************************************************************)
(* C1.  When the run has ended its exit code is 0 or 1, and it is 0        *)
(* exactly when structural validation of the manifest passed.              *)
(***************************************************************************)
ExitZeroIffStructurallyValid ==
  Done => /\ exitCode \in {0, 1}
          /\ exitCode = 0 <=> StructurallyValid

(***************************************************************************)
(* C2.  A manifest that passes structural validation and has no            *)
(* production-gate gap exits 0 with an empty warning list.                 *)
(***************************************************************************)
NoGapExitsCleanly ==
  StructurallyValid /\ NoProductionGap(manifestFile) =>
    /\ pc = "checked" => warnings = <<>>
    /\ Done => exitCode = 0 /\ warnings = <<>>

(***************************************************************************)
(* C2 as amended.  A manifest that passes structural validation, has no    *)
(* production-gate gap, and in whose components every version, commitSha   *)
(* and imageDigest string is empty or accepted by its format predicate,    *)
(* gets no warning, returned or printed; the run exits 0 when              *)
(* additional_validations returns, and with 1 on the values on which it    *)
(* raises: a manifest, metadata, spec or component that is not a mapping,  *)
(* components that is not a list, or a field that is a non-zero number.    *)
(***************************************************************************)
Fields == {"version", "commitSha", "imageDigest"}

FieldAccepted(c, key) ==
  IsMap(c) /\ c[key].kind = "str" /\ c[key].chars # <<>>
    => field_valid(key, c[key].chars)

FormatsAccepted(m) ==
  \A i \in 1..Len(ComponentsOf(m)) :
    \A key \in Fields : FieldAccepted(ComponentsOf(m)[i], key)

\* The values no check can be applied to.
IllTyped(m) ==
  \/ ~IsMap(m)
  \/ m.metadata # Absent /\ ~IsMap(m.metadata)
  \/ m.spec # Absent /\ ~IsMap(m.spec)
  \/ IsMap(m.spec) /\ m.spec.components # Absent
       /\ m.spec.components.kind # "list"
  \/ \E i \in 1..Len(ComponentsOf(m)) :
       LET c == ComponentsOf(m)[i]
       IN \/ ~IsMap(c)
          \/ \E key \in Fields :
               Truthy(c[key]) /\ c[key].kind # "str"

NoGapNoViolationNoWarning ==
  Done /\ StructurallyValid /\ NoProductionGap(manifestFile)
       /\ FormatsAccepted(manifestFile)
    => /\ warnings = <<>>
       /\ PrintedWarnings = <<>>
       /\ exitCode = (IF IllTyped(manifestFile) THEN 1 ELSE 0)

\* A production manifest with all its evidence and a well-formed component
\* has been reported.
NoGapNoViolationWitness ==
  /\ Done
  /\ StructurallyValid
  /\ EnvIsProd(manifestFile)
  /\ NoProductionGap(manifestFile)
  /\ Len(ComponentsOf(manifestFile)) >= 1
  /\ FormatsAccepted(manifestFile)
  /\ ~IllTyped(manifestFile)
  /\ Entered("report")
  /\ exitCode = 0

(***************************************************************************)
(* C3.  The returned warnings are in check order: securityScan, approvals, *)
(* tests, then the components in list order (version, commitSha,           *)
(* imageDigest within each), then rollbackTarget; and they are printed in  *)
(* the order of the list.                                                  *)
(***************************************************************************)
StageRank(w) ==
  CASE w.text \in SecurityScanTexts -> 1
    [] w.text \in ApprovalsTexts -> 2
    [] w.text \in TestsTexts -> 3
    [] w.text \in RollbackTexts -> 5
    [] OTHER -> 4

FieldRank(w) ==
  CASE w.text = VersionText -> 1
    [] w.text = ShaText -> 2
    [] w.text = DigestText -> 3
    [] OTHER -> 0

Precedes(a, b) ==
  \/ StageRank(a) < StageRank(b)
  \/ /\ StageRank(a) = StageRank(b)
     /\ \/ a.comp < b.comp
        \/ a.comp = b.comp /\ FieldRank(a) < FieldRank(b)

WarningsInCheckOrder ==
  /\ \A i, j \in 1..Len(warnings) : i < j => Precedes(warnings[i], warnings[j])
  /\ \A i \in 1..Len(warnings) :
       (StageRank(warnings[i]) = 4) <=> (warnings[i].comp > 0)
  /\ Entered("report") => PrintedWarnings = warnings

\* A finished run that warned about a gate, about two different
\* components, and about the rollback target.
WarningsInCheckOrderWitness ==
  /\ Done
  /\ Len(PrintedWarnings) >= 5
  /\ StageRank(warnings[1]) = 1
  /\ StageRank(Last(warnings)) = 5
  /\ \E i, j \in 1..Len(warnings) : warnings[i].comp = 1 /\ warnings[j].comp = 2

(***************************************************************************)
(* C4.  Production gates apply only to environment "prod": a prod manifest *)
(* that passes structural validation exits 0 with exactly one warning for  *)
(* each of securityScan, approvals, tests and rollbackTarget that is       *)
(* missing (or not passed, or empty) and none for the others; any other    *)
(* manifest gets none of these warnings.                                   *)
(***************************************************************************)
ProductionGatesOnlyForProd ==
  Done /\ StructurallyValid =>
    LET m == manifestFile
    IN IF EnvIsProd(m)
         THEN /\ exitCode = 0
              /\ Count(SecurityScanTexts) = (IF GatePassed(m, "securityScan") THEN 0 ELSE 1)
              /\ Count(ApprovalsTexts) = (IF ApprovalsGiven(m) THEN 0 ELSE 1)
              /\ Count(TestsTexts) = (IF GatePassed(m, "tests") THEN 0 ELSE 1)
              /\ Count(RollbackTexts) = (IF RollbackGiven(m) THEN 0 ELSE 1)
       ELSE Count(GateTexts) = 0

(***************************************************************************)
(* C5.  Once additional_validations has returned, each component has       *)
(* exactly one warning, carrying its name, for each of version, commitSha  *)
(* and imageDigest that is present and fails its format predicate, and     *)
(* none for a field that is absent or well formed; a present value outside *)
(* the documented pattern always has its warning.                          *)
(***************************************************************************)
FieldWarnings(i, text) ==
  {j \in 1..Len(warnings) : warnings[j].comp = i /\ warnings[j].text = text}

InPattern(key, chars) ==
  CASE key = "version" -> IsSemanticVersion(chars)
    [] key = "commitSha" -> IsCommitSha(chars)
    [] key = "imageDigest" -> IsImageDigest(chars)

FieldText(key) ==
  CASE key = "version" -> VersionText
    [] key = "commitSha" -> ShaText
    [] key = "imageDigest" -> DigestText

FieldChecked(c, i, key) ==
  LET value == c[key]
      present == value # Absent
      fails == ~(value.kind = "str" /\ field_valid(key, value.chars))
      outside == ~(value.kind = "str" /\ InPattern(key, value.chars))
      found == FieldWarnings(i, FieldText(key))
  IN /\ Cardinality(found) = (IF present /\ fails THEN 1 ELSE 0)
     /\ \A j \in found : warnings[j].name = c.name
     /\ present /\ outside => found # {}

OneWarningPerBadField ==
  pc = "checked" =>
    \A i \in 1..Len(ComponentsOf(manifest)) :
      \A key \in Fields : FieldChecked(ComponentsOf(manifest)[i], i, key)

(***************************************************************************)
(* C6.  additional_validations never raises: whenever it has been called   *)
(* on a manifest that passed structural validation it has returned its     *)
(* list and the run goes on to the report.                                 *)
(***************************************************************************)
SupplementalCheckNeverRaises ==
  Entered("additional_validations") => pc \in {"checked", "returned"} \/ Entered("report")

(***************************************************************************)
(* C7.  The run is linear.  The stages are entered in the order load,      *)
(* validate, check, report.  When structural validation fails the check    *)
(* is not entered, no warning or summary line is printed, the run fails,   *)
(* and an invalid manifest and an invalid schema are told apart by their   *)
(* message; when it passes, the check and the summary both happen.         *)
(***************************************************************************)
Pipeline == <<"load_schema", "load_manifest", "validate",
              "additional_validations", "report">>

StrictlyLinearRun ==
  /\ IsPrefix(calls, Pipeline)
  /\ Done /\ StructuralOutcome \in {"ValidationError", "SchemaError"} =>
       /\ ~Entered("additional_validations")
       /\ \A i \in 1..Len(output) :
            output[i].tag \notin SummaryTags \cup {"warning", "Additional warnings:"}
       /\ exitCode = 1
       /\ HasLine("Schema validation failed:") <=> StructuralOutcome = "ValidationError"
       /\ HasLine("Schema itself is invalid:") <=> StructuralOutcome = "SchemaError"
  /\ Done /\ StructurallyValid =>
       /\ calls = Pipeline
       /\ \A tag \in SummaryTags : HasLine(tag)

(***************************************************************************)
(* C8.  A manifest path that does not exist ends the run with exit code 1  *)
(* and the manifest "not found" message, whatever the schema file is, and  *)
(* nothing is validated, checked or reported.                              *)
(***************************************************************************)
NothingAfterLoad ==
  /\ ~Entered("validate")
  /\ ~Entered("additional_validations")
  /\ ~Entered("report")
  /\ \A i \in 1..Len(output) :
       output[i].tag \notin SummaryTags \cup {"warning", "Schema validation passed"}

MissingManifestAlwaysReported ==
  Done /\ manifestFile = Missing =>
    /\ exitCode = 1
    /\ HasLine("Manifest file not found")
    /\ NothingAfterLoad

(***************************************************************************)
(* C8 as amended.  A manifest path that does not exist ends the run with   *)
(* exit code 1 and nothing is validated, checked or reported.  The schema  *)
(* is loaded first: the manifest "not found" message is printed exactly    *)
(* when the schema file could be read and parsed; otherwise the run has    *)
(* already ended in load_schema and the manifest path is never opened.     *)
(***************************************************************************)
MissingManifestReportedAfterSchema ==
  Done /\ manifestFile = Missing =>
    /\ exitCode = 1
    /\ NothingAfterLoad
    /\ HasLine("Manifest file not found") <=> Loadable(schemaFile)
    /\ Entered("load_manifest") <=> Loadable(schemaFile)

MissingManifestWitness ==
  /\ Done
  /\ manifestFile = Missing
  /\ Loadable(schemaFile)
  /\ Last(output).tag = "Manifest file not found"
  /\ exitCode = 1

FormatPredicatesExact ==
  /\ fmtResult.semver # "unset" =>
       (fmtResult.semver = "True" <=> IsSemanticVersion(fmtInput))
  /\ fmtResult.sha # "unset" =>
       (fmtResult.sha = "True" <=> IsCommitSha(fmtInput))
  /\ fmtResult.digest # "unset" =>
       (fmtResult.digest = "True" <=> IsImageDigest(fmtInput))

====
